---- MODULE Spec2Model ----
(***************************************************************************)
(* Subtitle-Merger: the SRT merge pipeline of src/app.py and the           *)
(* minimum-duration helper of src/utils/common.py.                         *)
(*                                                                         *)
(* A Python str is modelled as a tuple of one-character strings, so that   *)
(* strip(), split(), strptime() and the f-string formatting are computed   *)
(* character by character as the code computes them.                       *)
(***************************************************************************)
EXTENDS Integers, Sequences, FiniteSets, TLC

VARIABLES
    cPc,      \* time codec: "parse" | "format" | "done"
    cIn,      \* time codec: the string handed to time_to_ms
    cMs,      \* time codec: the integer handed to ms_to_time
    cOut,     \* time codec: [raised, text] of the last call
    pc,       \* pipeline: position in process_srt / in the running merger
    opts,     \* pipeline: the options dict
    range,    \* pipeline: <<start_time, end_time>> of the request (<<>> = not given)
    parsed,   \* pipeline: the entries parse_srt returned
    entries,  \* pipeline: the entry list handed to the running stage
    idx,      \* merger loops: the cursor
    out,      \* merger loops: the list being built
    absorbed, \* merger loops: per emitted entry, how many input entries it absorbed
    result,   \* process_srt: [raised, output, beforeCount, afterCount]
    srt,      \* parse_srt: the lines of srt_text
    entry,    \* parse_srt: the entry dict being filled
    text_lines, \* parse_srt: the text lines of the current block
    window_candidates, \* merge_basic_entries: the candidates of the last window
    analyzer_calls     \* merge_basic_entries: what each analyze_segment call of the
                       \* last window did, in call order

vars == <<cPc, cIn, cMs, cOut, pc, opts, range, parsed, entries, idx, out, absorbed, result,
          srt, entry, text_lines, window_candidates, analyzer_calls>>

codecVars == <<cPc, cIn, cMs, cOut>>
pipeVars == <<pc, opts, range, parsed, entries, idx, out, absorbed, result>>
parseVars == <<srt, entry, text_lines>>
basicVars == <<window_candidates, analyzer_calls>>

(***************************************************************************)
(* Strings                                                                 *)
(***************************************************************************)
DigitChars == <<"0", "1", "2", "3", "4", "5", "6", "7", "8", "9">>

IsDigit(c) == \E d \in 1..10 : DigitChars[d] = c

DigitVal(c) == (CHOOSE d \in 1..10 : DigitChars[d] = c) - 1

\* str.isspace() on the characters the model uses
IsSpace(c) == c \in {" ", "\n"}

RECURSIVE lstrip(_)
lstrip(s) == IF s # <<>> /\ IsSpace(Head(s)) THEN lstrip(Tail(s)) ELSE s

RECURSIVE rstrip(_)
rstrip(s) ==
    IF s # <<>> /\ IsSpace(s[Len(s)]) THEN rstrip(SubSeq(s, 1, Len(s) - 1)) ELSE s

strip(s) == rstrip(lstrip(s))

\* number of leading characters of s that are not whitespace
RECURSIVE WordLen(_)
WordLen(s) == IF s = <<>> \/ IsSpace(Head(s)) THEN 0 ELSE 1 + WordLen(Tail(s))

\* str.split() with no argument: the whitespace-separated tokens
RECURSIVE split(_)
split(s) ==
    LET t == lstrip(s)
        n == WordLen(t)
    IN  IF t = <<>> THEN <<>>
        ELSE <<SubSeq(t, 1, n)>> \o split(SubSeq(t, n + 1, Len(t)))

\* ' '.join(words)
RECURSIVE join_space(_)
join_space(words) ==
    IF words = <<>> THEN <<>>
    ELSE IF Len(words) = 1 THEN words[1]
    ELSE words[1] \o <<" ">> \o join_space(Tail(words))

\* str.replace(' ', '')
RECURSIVE remove_spaces(_)
remove_spaces(s) ==
    IF s = <<>> THEN <<>>
    ELSE IF Head(s) = " " THEN remove_spaces(Tail(s))
    ELSE <<Head(s)>> \o remove_spaces(Tail(s))

\* int(digits) of a non-empty run of decimal digits
RECURSIVE DecValue(_)
DecValue(ds) ==
    IF ds = <<>> THEN 0 ELSE DecValue(SubSeq(ds, 1, Len(ds) - 1)) * 10 + DigitVal(ds[Len(ds)])

\* str(n) for n >= 0
RECURSIVE DecDigits(_)
DecDigits(n) ==
    IF n < 10 THEN <<DigitChars[n + 1]>>
    ELSE DecDigits(n \div 10) \o <<DigitChars[(n % 10) + 1]>>

RECURSIVE Zeros(_)
Zeros(k) == IF k <= 0 THEN <<>> ELSE <<"0">> \o Zeros(k - 1)

\* f"{n:0w}": sign first, then zeros up to the width, then the digits
LeftZeros(ds, w) == Zeros(w - Len(ds)) \o ds

ZeroPad(n, w) ==
    IF n >= 0 THEN LeftZeros(DecDigits(n), w)
    ELSE <<"-">> \o LeftZeros(DecDigits(-n), w - 1)

(***************************************************************************)
(* Time codec: time_to_ms / ms_to_time                                     *)
(***************************************************************************)
\* what time_to_ms returns in the model when the code raises ValueError
ValueError == -1

\* length of the run of decimal digits s starts with
RECURSIVE DigitRun(_)
DigitRun(s) == IF s = <<>> \/ ~IsDigit(Head(s)) THEN 0 ELSE 1 + DigitRun(Tail(s))

\* One numeric directive of the strptime regex followed by what comes next in the
\* format: the field is the whole digit run, one digit or two digits up to max2.
FieldOk(s, n, max2) ==
    \/ n = 1
    \/ n = 2 /\ DecValue(SubSeq(s, 1, 2)) <= max2

\* %H is 2[0-3]|[0-1]\d|\d, %M is [0-5]\d|\d, %S is 6[0-1]|[0-5]\d|\d
DirectiveMax == <<23, 59, 61>>

\* the literal that follows each of %H, %M, %S in "%H:%M:%S,%f"
DirectiveSep == <<":", ":", ",">>

\* The regex match of "%H:%M:%S,%f" from directive k on, s being what is left of
\* the string and n its leading digit run: the field values in order, or <<>>
\* where the regex does not match or data remains unconverted.  %f is
\* [0-9]{1,6}, right-padded with zeros to six digits.
RECURSIVE MatchDirectives(_, _, _, _)
MatchDirectives(s, n, k, found) ==
    IF k = 4
    THEN IF n >= 1 /\ n <= 6 /\ n = Len(s)
         THEN Append(found, DecValue(s \o Zeros(6 - n)))
         ELSE <<>>
    ELSE IF FieldOk(s, n, DirectiveMax[k]) /\ Len(s) > n /\ s[n + 1] = DirectiveSep[k]
    THEN MatchDirectives(SubSeq(s, n + 2, Len(s)), DigitRun(SubSeq(s, n + 2, Len(s))),
                         k + 1, Append(found, DecValue(SubSeq(s, 1, n))))
    ELSE <<>>

\* datetime(1900, 1, 1, hour, minute, second, microsecond) of the matched fields;
\* the constructor refuses second 60 and 61
DatetimeOf(found) ==
    IF found = <<>> \/ found[3] > 59
    THEN [ok |-> FALSE, hour |-> 0, minute |-> 0, second |-> 0, microsecond |-> 0]
    ELSE [ok |-> TRUE, hour |-> found[1], minute |-> found[2], second |-> found[3],
          microsecond |-> found[4]]

\* datetime.strptime(time_str, "%H:%M:%S,%f"); ok = FALSE where it raises
strptime(s) == DatetimeOf(MatchDirectives(s, DigitRun(s), 1, <<>>))

\* lines 41-46, and the ValueError of line 40 where strptime raised
MsOfDatetime(dt) ==
    IF ~dt.ok THEN ValueError
    ELSE dt.hour * 3600000 + dt.minute * 60000 + dt.second * 1000
         + (dt.microsecond \div 1000)

time_to_ms(time_str) == MsOfDatetime(strptime(time_str))

\* faulty variant of FormatTime: the milliseconds padded to two digits
FormatTime_ShortMillis(hours, remaining) ==
    ZeroPad(hours, 2) \o <<":">> \o ZeroPad(remaining \div 60000, 2) \o <<":">>
    \o ZeroPad((remaining % 60000) \div 1000, 2) \o <<",">>
    \o ZeroPad((remaining % 60000) % 1000, 2)

\* lines 52-54 and 58
FormatTime(hours, remaining) ==
    ZeroPad(hours, 2) \o <<":">> \o ZeroPad(remaining \div 60000, 2) \o <<":">>
    \o ZeroPad((remaining % 60000) \div 1000, 2) \o <<",">>
    \o ZeroPad((remaining % 60000) % 1000, 3)

ms_to_time(ms) == FormatTime(ms \div 3600000, ms % 3600000)

(***************************************************************************)
(* Specification of the time codec: a caller hands time_to_ms a string and *)
(* formats the result back (round trip), or hands ms_to_time an integer.   *)
(***************************************************************************)
HourFields == {<<"0", "0">>, <<"0", "1">>, <<"2", "3">>, <<"2", "4">>, <<"9", "9">>,
               <<"7">>, <<>>}

MinuteFields == {<<"0", "0">>, <<"5", "9">>, <<"6", "0">>, <<"3">>}

SecondFields == {<<"0", "0">>, <<"0", "1">>, <<"5", "9">>, <<"6", "0">>, <<"6", "1">>,
                 <<"5">>}

FractionFields == {<<"0", "0", "0">>, <<"0", "0", "7">>, <<"9", "9", "9">>, <<"5">>,
                   <<"1", "2">>, <<"1", "2", "3", "4">>,
                   <<"1", "2", "3", "4", "5", "6">>,
                   <<"1", "2", "3", "4", "5", "6", "7">>, <<>>}

CodecStrings ==
    { pre \o h \o <<":">> \o m \o <<":">> \o s \o <<sep>> \o f \o post :
        pre \in {<<>>, <<" ">>}, h \in HourFields, m \in MinuteFields,
        s \in SecondFields, sep \in {",", "."}, f \in FractionFields,
        post \in {<<>>, <<" ">>} }

MsInputs == {-3600001, -1000, -1, 0, 1, 999, 1000, 61001, 86399999, 86400000, 360000000}

NoCall == [raised |-> FALSE, text |-> <<>>]

\* parse_srt is not running
ParseIdle ==
    /\ srt = <<>>
    /\ entry = <<>>
    /\ text_lines = <<>>

\* no window of merge_basic_entries has been built
NoWindow ==
    /\ window_candidates = <<>>
    /\ analyzer_calls = <<>>

PipeIdle ==
    /\ pc = "idle"
    /\ opts = <<>>
    /\ range = <<>>
    /\ parsed = <<>>
    /\ entries = <<>>
    /\ idx = 0
    /\ out = <<>>
    /\ absorbed = <<>>
    /\ result = <<>>

InitCodec ==
    /\ \/ cPc = "parse" /\ cIn \in CodecStrings /\ cMs = 0
       \/ cPc = "format" /\ cIn = <<>> /\ cMs \in MsInputs
    /\ cOut = NoCall
    /\ PipeIdle
    /\ ParseIdle
    /\ NoWindow

\* ms = time_to_ms(cIn); a ValueError ends the round trip
CodecParse ==
    /\ cPc = "parse"
    /\ LET ms == time_to_ms(cIn)
       IN  IF ms = ValueError
           THEN /\ cOut' = [raised |-> TRUE, text |-> <<>>]
                /\ cPc' = "done"
                /\ cMs' = cMs
           ELSE /\ cMs' = ms
                /\ cPc' = "format"
                /\ cOut' = cOut
    /\ UNCHANGED <<cIn, pipeVars, parseVars, basicVars>>

\* text = ms_to_time(cMs); divmod on an int never raises, so the except branch
\* of ms_to_time is never taken
CodecFormat ==
    /\ cPc = "format"
    /\ cOut' = [raised |-> FALSE, text |-> ms_to_time(cMs)]
    /\ cPc' = "done"
    /\ UNCHANGED <<cIn, cMs, pipeVars, parseVars, basicVars>>

NextCodec == CodecParse \/ CodecFormat

SpecCodec == InitCodec /\ [][NextCodec]_vars

\* HH:MM:SS,mmm with two-digit fields that are a time of day and three
\* fractional digits
WellFormed(s) ==
    /\ Len(s) = 12
    /\ s[3] = ":" /\ s[6] = ":" /\ s[9] = ","
    /\ \A i \in {1, 2, 4, 5, 7, 8, 10, 11, 12} : IsDigit(s[i])
    /\ DigitVal(s[1]) * 10 + DigitVal(s[2]) <= 23
    /\ DigitVal(s[4]) <= 5
    /\ DigitVal(s[7]) <= 5

\* C3: for every well-formed timestamp t (two-digit hour 00-23, minute and
\* second 00-59, exactly three millisecond digits), time_to_ms accepts t and
\* ms_to_time(time_to_ms(t)) = t.
C3_RoundTrip ==
    (cPc = "done" /\ cIn # <<>> /\ WellFormed(cIn))
        => (~cOut.raised /\ cOut.text = cIn)

C3_Witness ==
    /\ cPc = "done"
    /\ cIn = <<"2", "3", ":", "5", "9", ":", "5", "9", ",", "9", "9", "9">>
    /\ cMs = 86399999
    /\ cOut.text = cIn

\* C4: every string time_to_ms accepts comes back unchanged from ms_to_time,
\* that is, time_to_ms raises on every string that is not in the exact
\* two-digit-fields, three-fractional-digits form.
C4_AcceptedRoundTrips ==
    (cPc = "done" /\ cIn # <<>>)
        => /\ ~cOut.raised => cOut.text = cIn
           /\ ~WellFormed(cIn) => cOut.raised

\* C5: ms_to_time never returns a timestamp string for a negative input.
C5_NegativeRejected ==
    (cPc = "done" /\ cIn = <<>> /\ cMs < 0) => cOut.raised

(***************************************************************************)
(* Entries and options                                                     *)
(*                                                                         *)
(* An entry is [start_time, end_time, text]; the 'index' key is written by *)
(* reindex_entries only, which overwrites whatever parse_srt had read.     *)
(* The cursor idx is 0-based as in the code; At(es, i) is es[i].           *)
(***************************************************************************)
At(es, i) == es[i + 1]

Entry(start, end, text) == [start_time |-> start, end_time |-> end, text |-> text]

\* the options dict; a flag that is absent from the dict reads as FALSE
DefaultOptions ==
    [enableDuplicateMerge |-> FALSE, maxDuplicateGap |-> 300,
     enableEndStartMerge |-> FALSE, maxEndStartGap |-> 300,
     enableBasicMerge |-> FALSE,
     candidateChunkSize |-> [is_int |-> TRUE, value |-> 3],
     maxMergeCount |-> 2, maxTextLength |-> 50, maxBasicGap |-> 500,
     enableSpaceMerge |-> FALSE,
     enableMinLengthMerge |-> FALSE, minTextLength |-> 1,
     enableMinDurationRemove |-> FALSE, minDurationMs |-> 300,
     enableSegmentAnalyzer |-> FALSE]

\* an exception leaves process_srt (or the merger called on its own)
Raised == [raised |-> TRUE, output |-> <<>>, beforeCount |-> 0, afterCount |-> 0]

NoResult == [raised |-> FALSE, output |-> <<>>, beforeCount |-> 0, afterCount |-> 0]

\* all sequences over S of length at most n
SeqsUpTo(S, n) == UNION { [1..k -> S] : k \in 0..n }

RECURSIVE SumSeq(_)
SumSeq(ns) == IF ns = <<>> THEN 0 ELSE Head(ns) + SumSeq(Tail(ns))

\* 0-based position of the first input entry the k-th emitted entry absorbed
FirstOf(k) == SumSeq(SubSeq(absorbed, 1, k - 1))

(***************************************************************************)
(* merge_duplicate_entries                                                 *)
(***************************************************************************)
\* faulty variant of IsDuplicate: no lower bound on the gap
IsDuplicate_NoLowerBound(current, next_entry, time_gap, max_duplicate_gap) ==
    current.text = next_entry.text /\ time_gap <= max_duplicate_gap

\* the condition of line 108
IsDuplicate(current, next_entry, time_gap, max_duplicate_gap) ==
    current.text = next_entry.text /\ 0 <= time_gap /\ time_gap <= max_duplicate_gap

\* the inner while loop of lines 103-112, from duplicate_count on
RECURSIVE DupScan(_, _, _, _, _)
DupScan(es, i, duplicate_count, current_end_ms, max_duplicate_gap) ==
    IF ~(i + duplicate_count < Len(es))
    THEN [raised |-> FALSE, duplicate_count |-> duplicate_count,
          current_end_ms |-> current_end_ms]
    ELSE
    LET next_entry == At(es, i + duplicate_count)
        next_start_ms == time_to_ms(next_entry.start_time)
    IN  IF next_start_ms = ValueError
        THEN [raised |-> TRUE, duplicate_count |-> duplicate_count,
              current_end_ms |-> current_end_ms]
        ELSE IF IsDuplicate(At(es, i), next_entry, next_start_ms - current_end_ms,
                            max_duplicate_gap)
        THEN LET next_end_ms == time_to_ms(next_entry.end_time)
             IN  IF next_end_ms = ValueError
                 THEN [raised |-> TRUE, duplicate_count |-> duplicate_count,
                       current_end_ms |-> current_end_ms]
                 ELSE DupScan(es, i, duplicate_count + 1, next_end_ms, max_duplicate_gap)
        ELSE [raised |-> FALSE, duplicate_count |-> duplicate_count,
              current_end_ms |-> current_end_ms]

\* one iteration of the outer while loop of lines 98-125
DupIteration(es, i, max_duplicate_gap) ==
    LET current == At(es, i)
        current_end_ms == time_to_ms(current.end_time)
    IN  IF current_end_ms = ValueError
        THEN [raised |-> TRUE, count |-> 0, entry |-> current]
        ELSE
        LET scan == DupScan(es, i, 1, current_end_ms, max_duplicate_gap)
        IN  IF scan.raised THEN [raised |-> TRUE, count |-> 0, entry |-> current]
            ELSE IF scan.duplicate_count > 1
            THEN [raised |-> FALSE, count |-> scan.duplicate_count,
                  entry |-> Entry(current.start_time, ms_to_time(scan.current_end_ms),
                                  current.text)]
            ELSE [raised |-> FALSE, count |-> 1, entry |-> current]

DupStep ==
    /\ pc = "dup"
    /\ idx < Len(entries)
    /\ LET it == DupIteration(entries, idx, opts.maxDuplicateGap)
       IN  IF it.raised
           THEN /\ pc' = "raised"
                /\ result' = Raised
                /\ UNCHANGED <<idx, out, absorbed>>
           ELSE /\ out' = Append(out, it.entry)
                /\ absorbed' = Append(absorbed, it.count)
                /\ idx' = idx + it.count
                /\ UNCHANGED <<pc, result>>
    /\ UNCHANGED <<opts, range, parsed, entries, codecVars, parseVars, basicVars>>

\* return deduplicated_entries (line 127), back in apply_merge_pipeline
DupReturn ==
    /\ pc = "dup"
    /\ ~(idx < Len(entries))
    /\ entries' = out
    /\ pc' = "end_start?"
    /\ UNCHANGED <<opts, range, parsed, idx, out, absorbed, result, codecVars, parseVars, basicVars>>

(***************************************************************************)
(* merge_end_start_entries                                                 *)
(***************************************************************************)
\* faulty variant of FuseEndStart: all of next_entry's words are appended
FuseEndStart_KeepFirstWord(merged_entry, next_entry, enable_space_merge) ==
    LET next_words == split(strip(next_entry.text))
        remaining_text == join_space(next_words)
        joiner == IF enable_space_merge /\ remaining_text # <<>> THEN <<" ">> ELSE <<>>
    IN  [merged_entry EXCEPT
            !.end_time = next_entry.end_time,
            !.text = strip(merged_entry.text) \o joiner \o remaining_text]

\* lines 156-159: the merged entry after it absorbed next_entry
FuseEndStart(merged_entry, next_entry, enable_space_merge) ==
    LET next_words == split(strip(next_entry.text))
        remaining_text ==
            IF Len(next_words) > 1 THEN join_space(Tail(next_words)) ELSE <<>>
        joiner == IF enable_space_merge /\ remaining_text # <<>> THEN <<" ">> ELSE <<>>
    IN  [merged_entry EXCEPT
            !.end_time = next_entry.end_time,
            !.text = strip(merged_entry.text) \o joiner \o remaining_text]

\* the inner while loop of lines 144-160; i is the last absorbed position
RECURSIVE EndStartScan(_, _, _, _, _)
EndStartScan(es, i, merged_entry, max_end_start_gap, enable_space_merge) ==
    IF ~(i + 1 < Len(es))
    THEN [raised |-> FALSE, idx |-> i, entry |-> merged_entry]
    ELSE
    LET next_entry == At(es, i + 1)
        current_end_ms == time_to_ms(merged_entry.end_time)
        next_start_ms == time_to_ms(next_entry.start_time)
        current_words == split(strip(merged_entry.text))
        next_words == split(strip(next_entry.text))
    IN  IF current_end_ms = ValueError \/ next_start_ms = ValueError
        THEN [raised |-> TRUE, idx |-> i, entry |-> merged_entry]
        ELSE IF next_start_ms - current_end_ms > max_end_start_gap
        THEN [raised |-> FALSE, idx |-> i, entry |-> merged_entry]
        ELSE IF current_words = <<>> \/ next_words = <<>>
                \/ current_words[Len(current_words)] # next_words[1]
        THEN [raised |-> FALSE, idx |-> i, entry |-> merged_entry]
        ELSE EndStartScan(es, i + 1,
                          FuseEndStart(merged_entry, next_entry, enable_space_merge),
                          max_end_start_gap, enable_space_merge)

EndStartStep ==
    /\ pc = "end_start"
    /\ idx < Len(entries)
    /\ LET scan == EndStartScan(entries, idx, At(entries, idx), opts.maxEndStartGap,
                                opts.enableSpaceMerge)
       IN  IF scan.raised
           THEN /\ pc' = "raised"
                /\ result' = Raised
                /\ UNCHANGED <<idx, out, absorbed>>
           ELSE /\ out' = Append(out, scan.entry)
                /\ absorbed' = Append(absorbed, scan.idx - idx + 1)
                /\ idx' = scan.idx + 1
                /\ UNCHANGED <<pc, result>>
    /\ UNCHANGED <<opts, range, parsed, entries, codecVars, parseVars, basicVars>>

\* return merged_entries (line 165), back in apply_merge_pipeline
EndStartReturn ==
    /\ pc = "end_start"
    /\ ~(idx < Len(entries))
    /\ entries' = out
    /\ pc' = "basic?"
    /\ UNCHANGED <<opts, range, parsed, idx, out, absorbed, result, codecVars, parseVars, basicVars>>

(***************************************************************************)
(* Inputs: timestamps and texts of the entry pools                         *)
(***************************************************************************)
D2(n) == <<DigitChars[(n \div 10) + 1], DigitChars[(n % 10) + 1]>>

\* the timestamp 00:00:SS,mmm
Stamp(sec, milli) ==
    <<"0", "0", ":", "0", "0", ":">> \o D2(sec) \o <<",">>
    \o <<DigitChars[(milli \div 100) + 1]>> \o D2(milli % 100)

CodecIdle ==
    /\ cPc = "idle"
    /\ cIn = <<>>
    /\ cMs = 0
    /\ cOut = NoCall

LoopStart ==
    /\ idx = 0
    /\ out = <<>>
    /\ absorbed = <<>>
    /\ result = NoResult
    /\ range = <<<<>>, <<>>>>

(***************************************************************************)
(* Specification of merge_duplicate_entries called on its own              *)
(***************************************************************************)
MaxDupEntries == 3

TextX == <<"x">>
TextY == <<"y">>

DupA == Entry(Stamp(0, 0), Stamp(1, 0), TextX)
DupB == Entry(Stamp(1, 200), Stamp(2, 0), TextX)

DupPool ==
    { DupA, DupB,
      Entry(Stamp(2, 300), Stamp(3, 0), TextX),     \* 300 ms after DupB
      Entry(Stamp(3, 301), Stamp(4, 0), TextX),     \* 301 ms after the one above
      Entry(Stamp(0, 900), Stamp(1, 500), TextX),   \* starts before DupA ends
      Entry(Stamp(1, 200), Stamp(2, 0), TextY),     \* DupB with another text
      \* ends at 00:00:02,0, which strptime reads as 2000 ms
      Entry(Stamp(1, 0), <<"0", "0", ":", "0", "0", ":", "0", "2", ",", "0">>, TextX) }

InitDup ==
    /\ pc = "dup"
    /\ \E g \in {0, 300} : opts = [DefaultOptions EXCEPT !.maxDuplicateGap = g]
    /\ entries \in SeqsUpTo(DupPool, MaxDupEntries)
    /\ parsed = entries
    /\ LoopStart
    /\ CodecIdle
    /\ ParseIdle
    /\ NoWindow

NextDup == DupStep \/ DupReturn

SpecDup == InitDup /\ [][NextDup]_vars

\* next start minus the end of the entry before it, in ms
GapAfter(es, i) ==
    time_to_ms(At(es, i + 1).start_time) - time_to_ms(At(es, i).end_time)

\* C6: merge_duplicate_entries absorbs the next entry into the run exactly
\* when its text equals the run's text and the gap from the run's current end
\* to its start is in [0, max_duplicate_gap]; a run of more than one entry is
\* emitted with the first start, the last absorbed end and the same text, an
\* entry with no absorbed successor is emitted unchanged; the two "x" entries
\* 00:00:00,000-00:00:01,000 and 00:00:01,200-00:00:02,000 with gap limit 300
\* give the one entry 00:00:00,000-00:00:02,000.
C6_DuplicateRuns ==
    pc \in {"dup", "end_start?"} =>
        /\ Len(absorbed) = Len(out)
        /\ SumSeq(absorbed) = idx
        /\ \A k \in 1..Len(out) :
            LET first == FirstOf(k)
                n == absorbed[k]
                head == At(parsed, first)
                last == At(parsed, first + n - 1)
            IN  /\ n >= 1
                /\ first + n <= Len(parsed)
                /\ \A j \in 1..(n - 1) :
                      /\ At(parsed, first + j).text = head.text
                      /\ GapAfter(parsed, first + j - 1) >= 0
                      /\ GapAfter(parsed, first + j - 1) <= opts.maxDuplicateGap
                /\ first + n < Len(parsed) =>
                      ~ /\ At(parsed, first + n).text = head.text
                        /\ GapAfter(parsed, first + n - 1) >= 0
                        /\ GapAfter(parsed, first + n - 1) <= opts.maxDuplicateGap
                /\ n = 1 => out[k] = head
                /\ n > 1 =>
                      /\ out[k].start_time = head.start_time
                      /\ out[k].text = head.text
                      /\ time_to_ms(out[k].end_time) = time_to_ms(last.end_time)
                      /\ WellFormed(last.end_time) => out[k].end_time = last.end_time
        /\ (pc = "end_start?" /\ parsed = <<DupA, DupB>> /\ opts.maxDuplicateGap = 300)
              => entries = <<Entry(Stamp(0, 0), Stamp(2, 0), TextX)>>

C6_Witness ==
    /\ pc = "end_start?"
    /\ parsed = <<DupA, DupB>>
    /\ opts.maxDuplicateGap = 300
    /\ absorbed = <<2>>
    /\ entries = <<Entry(Stamp(0, 0), Stamp(2, 0), TextX)>>

(***************************************************************************)
(* Specification of merge_end_start_entries called on its own              *)
(***************************************************************************)
MaxEndStartEntries == 3

TextAEnd == <<"a", " ", "e", "n", "d">>
TextEndB == <<"e", "n", "d", " ", "b">>

EsA == Entry(Stamp(0, 0), Stamp(1, 0), TextAEnd)
EsB == Entry(Stamp(1, 200), Stamp(2, 0), TextEndB)

EndStartPool ==
    { EsA, EsB,
      Entry(Stamp(2, 100), Stamp(3, 0), <<"b", " ", "e", "n", "d">>),
      Entry(Stamp(3, 0), Stamp(4, 0), <<"e", "n", "d">>),
      \* two lines and a double space inside the text
      Entry(Stamp(2, 200), Stamp(3, 0), <<"e", "n", "d", "\n", "b", " ", " ", "c">>),
      \* more than max_end_start_gap after every other entry
      Entry(Stamp(9, 0), Stamp(9, 500), TextEndB) }

InitEndStart ==
    /\ pc = "end_start"
    /\ \E sp \in BOOLEAN : opts = [DefaultOptions EXCEPT !.enableSpaceMerge = sp]
    /\ entries \in SeqsUpTo(EndStartPool, MaxEndStartEntries)
    /\ parsed = entries
    /\ LoopStart
    /\ CodecIdle
    /\ ParseIdle
    /\ NoWindow

NextEndStart == EndStartStep \/ EndStartReturn

SpecEndStart == InitEndStart /\ [][NextEndStart]_vars

\* the tokens of entries first..first+n-1 (0-based), the first token of every
\* entry but the first one dropped
RECURSIVE BoundaryTokens(_, _, _)
BoundaryTokens(es, first, n) ==
    IF n = 1 THEN split(At(es, first).text)
    ELSE BoundaryTokens(es, first, n - 1) \o Tail(split(At(es, first + n - 1).text))

\* C7: when merge_end_start_entries fuses A (last token w) with the following
\* B (first token w, gap <= max_end_start_gap), the merged text is A's text
\* followed by B's tokens except the first, so w stands once at the join, and
\* the merged entry ends when B ends; with space merge on and off.
C7_BoundaryFusion ==
    pc \in {"end_start", "basic?"} =>
        /\ Len(absorbed) = Len(out)
        /\ SumSeq(absorbed) = idx
        /\ \A k \in 1..Len(out) :
            LET first == FirstOf(k)
                n == absorbed[k]
                A == At(parsed, first)
                B == At(parsed, first + n - 1)
                aw == split(A.text)
                bw == split(B.text)
            IN  /\ n >= 1
                /\ first + n <= Len(parsed)
                /\ n = 1 => out[k] = A
                /\ n >= 2 =>
                      /\ out[k].start_time = A.start_time
                      /\ out[k].end_time = B.end_time
                      /\ opts.enableSpaceMerge =>
                            split(out[k].text) = BoundaryTokens(parsed, first, n)
                /\ n = 2 =>
                      /\ aw # <<>> /\ bw # <<>> /\ aw[Len(aw)] = bw[1]
                      /\ GapAfter(parsed, first) <= opts.maxEndStartGap
                      /\ out[k].text =
                            strip(A.text)
                            \o (IF opts.enableSpaceMerge /\ Len(bw) > 1 THEN <<" ">> ELSE <<>>)
                            \o join_space(Tail(bw))
                      /\ opts.enableSpaceMerge => split(out[k].text) = aw \o Tail(bw)
                      /\ ~opts.enableSpaceMerge =>
                            split(out[k].text) =
                                IF Len(bw) = 1 THEN aw
                                ELSE SubSeq(aw, 1, Len(aw) - 1)
                                     \o <<aw[Len(aw)] \o bw[2]>>
                                     \o SubSeq(bw, 3, Len(bw))

C7_Witness ==
    /\ pc = "basic?"
    /\ parsed = <<EsA, EsB>>
    /\ ~opts.enableSpaceMerge
    /\ absorbed = <<2>>
    /\ entries = <<Entry(Stamp(0, 0), Stamp(2, 0), <<"a", " ", "e", "n", "d", "b">>)>>

(***************************************************************************)
(* merge_basic_entries                                                     *)
(***************************************************************************)
Max(a, b) == IF a >= b THEN a ELSE b
Min(a, b) == IF a <= b THEN a ELSE b

\* the fallback of line 237 when int(raw_candidate_chunk) raises
DefaultCandidateChunkSize == 3

\* lines 233-238
candidate_chunk_size(options) ==
    LET raw_candidate_chunk == options.candidateChunkSize
    IN  Max(1, IF raw_candidate_chunk.is_int THEN raw_candidate_chunk.value
               ELSE DefaultCandidateChunkSize)

_join_segment_text(current_text, next_text, enable_space_merge) ==
    LET left == strip(current_text)
        right == strip(next_text)
    IN  IF left = <<>> THEN right
        ELSE IF right = <<>> THEN left
        ELSE left \o (IF enable_space_merge THEN <<" ">> ELSE <<>>) \o right

\* The analyzer is external (spaCy): a call raises or returns a verdict.  Scores
\* are in tenths, so 0.7 * completeness + 0.3 * break_naturalness is
\* (7 * c + 3 * b) hundredths and round(.., 4) changes nothing.
AnalyzerRaises ==
    [raises |-> TRUE, completeness_score |-> 0, break_naturalness |-> 0,
     is_complete_sentence |-> FALSE]

AnalyzerOutcomes ==
    { AnalyzerRaises,
      [raises |-> FALSE, completeness_score |-> 3, break_naturalness |-> 0,
       is_complete_sentence |-> FALSE],
      [raises |-> FALSE, completeness_score |-> 0, break_naturalness |-> 7,
       is_complete_sentence |-> TRUE] }

\* the None of _safe_analyze_segment
NoAnalysis ==
    [has |-> FALSE, completeness_score |-> 0, break_naturalness |-> 0,
     is_complete_sentence |-> FALSE]

\* faulty variant of _safe_analyze_segment: a failed call yields a verdict
_safe_analyze_segment_NoCatch(outcome, enable_analyzer) ==
    IF ~enable_analyzer THEN NoAnalysis
    ELSE [has |-> TRUE, completeness_score |-> outcome.completeness_score,
          break_naturalness |-> outcome.break_naturalness,
          is_complete_sentence |-> outcome.is_complete_sentence]

\* outcome is what analyze_segment does if it is called
_safe_analyze_segment(outcome, enable_analyzer) ==
    IF ~enable_analyzer THEN NoAnalysis
    ELSE IF outcome.raises THEN NoAnalysis
    ELSE [has |-> TRUE, completeness_score |-> outcome.completeness_score,
          break_naturalness |-> outcome.break_naturalness,
          is_complete_sentence |-> outcome.is_complete_sentence]

_compute_candidate_score(analysis) ==
    IF ~analysis.has THEN 0
    ELSE 7 * analysis.completeness_score + 3 * analysis.break_naturalness

\* [raised, ok]: time_to_ms raises, or the bool the function returns
_can_extend_merge(current_text, next_entry, current_end_time, options) ==
    LET current_end_ms == time_to_ms(current_end_time)
        next_start_ms == time_to_ms(next_entry.start_time)
        current_len == Len(remove_spaces(current_text))
        next_len == Len(remove_spaces(strip(next_entry.text)))
    IN  IF current_end_ms = ValueError \/ next_start_ms = ValueError
        THEN [raised |-> TRUE, ok |-> FALSE]
        ELSE IF next_start_ms - current_end_ms > options.maxBasicGap
        THEN [raised |-> FALSE, ok |-> FALSE]
        ELSE IF options.enableMinLengthMerge
                /\ (current_len >= options.minTextLength
                    \/ next_len >= options.minTextLength)
        THEN [raised |-> FALSE, ok |-> FALSE]
        ELSE [raised |-> FALSE, ok |-> TRUE]

\* faulty variant of GrowthCapped: the maxMergeCount test left out
GrowthCapped_NoMergeCap(start_idx, merge_count, window_end, options) ==
    \/ merge_count >= candidate_chunk_size(options)
    \/ start_idx + merge_count >= window_end

\* the stop condition of lines 293-297
GrowthCapped(start_idx, merge_count, window_end, options) ==
    \/ merge_count >= options.maxMergeCount
    \/ merge_count >= candidate_chunk_size(options)
    \/ start_idx + merge_count >= window_end

\* the while True loop of lines 273-311 for one start_idx: the candidates it
\* appends, in order, before any analysis is attached
RECURSIVE GrowCandidates(_, _, _, _, _, _, _)
GrowCandidates(es, start_idx, merge_count, current_text, current_end_time, window_end, options) ==
    LET cand == [entry |-> Entry(At(es, start_idx).start_time, current_end_time,
                                 current_text),
                 merge_count |-> merge_count,
                 start_idx |-> start_idx]
        next_entry == At(es, start_idx + merge_count)
        can == _can_extend_merge(current_text, next_entry, current_end_time, options)
        combined_text ==
            _join_segment_text(current_text, next_entry.text, options.enableSpaceMerge)
    IN  IF GrowthCapped(start_idx, merge_count, window_end, options)
        THEN [raised |-> FALSE, cands |-> <<cand>>]
        ELSE IF can.raised THEN [raised |-> TRUE, cands |-> <<>>]
        ELSE IF ~can.ok THEN [raised |-> FALSE, cands |-> <<cand>>]
        ELSE IF Len(combined_text) > options.maxTextLength
        THEN [raised |-> FALSE, cands |-> <<cand>>]
        ELSE LET rest == GrowCandidates(es, start_idx, merge_count + 1, combined_text,
                                        next_entry.end_time, window_end, options)
             IN  [raised |-> rest.raised, cands |-> <<cand>> \o rest.cands]

\* the for loop of lines 266-311 from start_idx on
RECURSIVE WindowCandidates(_, _, _, _)
WindowCandidates(es, start_idx, window_end, options) ==
    IF ~(start_idx < window_end) THEN [raised |-> FALSE, cands |-> <<>>]
    ELSE
    LET start_entry == At(es, start_idx)
        own == GrowCandidates(es, start_idx, 1, strip(start_entry.text),
                              start_entry.end_time, window_end, options)
    IN  IF own.raised THEN [raised |-> TRUE, cands |-> <<>>]
        ELSE LET rest == WindowCandidates(es, start_idx + 1, window_end, options)
             IN  [raised |-> rest.raised, cands |-> own.cands \o rest.cands]

\* faulty variant of CandidateKey: break_naturalness left out of the key
CandidateKey_NoNaturalness(cand) ==
    <<cand.score, 0, cand.merge_count>>

\* the key of lines 343-347
CandidateKey(cand) ==
    <<cand.score,
      IF cand.analysis.has THEN cand.analysis.break_naturalness ELSE 0,
      cand.merge_count>>

\* tuple comparison a < b
KeyLess(a, b) ==
    \/ a[1] < b[1]
    \/ a[1] = b[1] /\ a[2] < b[2]
    \/ a[1] = b[1] /\ a[2] = b[2] /\ a[3] < b[3]

\* max(window_candidates, key=...): a later candidate replaces the best one so
\* far only when its key is strictly greater, so the first of equals wins
RECURSIVE MaxFrom(_, _, _)
MaxFrom(candidates, i, best) ==
    IF i > Len(candidates) THEN best
    ELSE MaxFrom(candidates, i + 1,
                 IF KeyLess(CandidateKey(best), CandidateKey(candidates[i]))
                 THEN candidates[i] ELSE best)

BestCandidate(candidates) == MaxFrom(candidates, 2, candidates[1])

\* lines 274-291: the candidate with the analysis of its text
Scored(cand, current_analysis) ==
    [entry |-> cand.entry,
     merge_count |-> cand.merge_count,
     analysis |-> current_analysis,
     score |-> _compute_candidate_score(current_analysis),
     is_complete |-> current_analysis.has /\ current_analysis.is_complete_sentence,
     start_idx |-> cand.start_idx]

\* lines 271 and 311: every candidate text is analysed once, in order
RECURSIVE ScoredCandidates(_, _, _)
ScoredCandidates(cands, outcomes, enable_analyzer) ==
    IF cands = <<>> THEN <<>>
    ELSE <<Scored(Head(cands), _safe_analyze_segment(Head(outcomes), enable_analyzer))>>
         \o ScoredCandidates(Tail(cands), Tail(outcomes), enable_analyzer)

\* faulty variant of EmitBest: the entries before the winner are not emitted
EmitBest_NoFills(es, i, best_candidate) ==
    [emitted |-> <<best_candidate.entry>>,
     counts |-> <<best_candidate.merge_count>>,
     idx |-> best_candidate.start_idx + best_candidate.merge_count]

\* faulty variant of EmitBest: the cursor moves to the winner's start only
EmitBest_CursorAtStart(es, i, best_candidate) ==
    LET fills == [k \in 1..(best_candidate.start_idx - i) |-> At(es, i + k - 1)]
    IN  [emitted |-> fills \o <<best_candidate.entry>>,
         counts |-> [k \in 1..Len(fills) |-> 1] \o <<best_candidate.merge_count>>,
         idx |-> best_candidate.start_idx]

\* lines 350-356: [entries appended, their absorbed counts, the new cursor]
EmitBest(es, i, best_candidate) ==
    LET fills == [k \in 1..(best_candidate.start_idx - i) |-> At(es, i + k - 1)]
    IN  [emitted |-> fills \o <<best_candidate.entry>>,
         counts |-> [k \in 1..Len(fills) |-> 1] \o <<best_candidate.merge_count>>,
         idx |-> best_candidate.start_idx + best_candidate.merge_count]

\* faulty variant of WindowEnd: the window runs to the end of the list
WindowEnd_WholeList(es, i, options) == Len(es)

\* line 263
WindowEnd(es, i, options) == Min(Len(es), i + candidate_chunk_size(options))

\* one iteration of the while loop of lines 262-356
BasicStep ==
    /\ pc = "basic"
    /\ idx < Len(entries)
    /\ LET window_end == WindowEnd(entries, idx, opts)
           win == WindowCandidates(entries, idx, window_end, opts)
       IN  IF win.raised
           THEN /\ pc' = "raised"
                /\ result' = Raised
                /\ UNCHANGED <<idx, out, absorbed, basicVars>>
           ELSE IF win.cands = <<>>
           THEN /\ out' = Append(out, At(entries, idx))
                /\ absorbed' = Append(absorbed, 1)
                /\ idx' = idx + 1
                /\ window_candidates' = <<>>
                /\ analyzer_calls' = <<>>
                /\ UNCHANGED <<pc, result>>
           ELSE \E outcomes \in
                    IF opts.enableSegmentAnalyzer
                    THEN [1..Len(win.cands) -> AnalyzerOutcomes]
                    ELSE {[i \in 1..Len(win.cands) |-> AnalyzerRaises]} :
                  LET scored ==
                          ScoredCandidates(win.cands, outcomes, opts.enableSegmentAnalyzer)
                      em == EmitBest(entries, idx, BestCandidate(scored))
                  IN  /\ window_candidates' = scored
                      /\ analyzer_calls' = IF opts.enableSegmentAnalyzer THEN outcomes ELSE <<>>
                      /\ out' = out \o em.emitted
                      /\ absorbed' = absorbed \o em.counts
                      /\ idx' = em.idx
                      /\ UNCHANGED <<pc, result>>
    /\ UNCHANGED <<opts, range, parsed, entries, codecVars, parseVars>>

\* return processed_entries (line 358), back in apply_merge_pipeline
BasicReturn ==
    /\ pc = "basic"
    /\ ~(idx < Len(entries))
    /\ entries' = out
    /\ pc' = "reindex"
    /\ UNCHANGED <<opts, range, parsed, idx, out, absorbed, result, codecVars, parseVars, basicVars>>

(***************************************************************************)
(* Specification of merge_basic_entries called on its own                  *)
(***************************************************************************)
MaxBasicEntries == 3

TextA == <<"a">>
TextBbb == <<"b", "b", "b">>

\* The k-th entry (0-based) starts at 00:00:2k,000 and ends 500 ms (tight) or
\* 1000 ms before the next one starts.
BasicEntry(k, text, tight) ==
    Entry(Stamp(2 * k, 0), Stamp(2 * k + 1, IF tight THEN 500 ELSE 0), text)

BasicInputs ==
    UNION { { [k \in 1..n |-> BasicEntry(k - 1, texts[k], k < n /\ tights[k])] :
                texts \in [1..n -> {TextA, TextBbb}],
                tights \in [1..(n - 1) -> BOOLEAN] } :
            n \in 0..MaxBasicEntries }

IntChunk(v) == [is_int |-> TRUE, value |-> v]

BasicOption(chunk, mmc, mtl, sp, mlm, an) ==
    [DefaultOptions EXCEPT
        !.enableBasicMerge = TRUE,
        !.candidateChunkSize = chunk,
        !.maxMergeCount = mmc,
        !.maxTextLength = mtl,
        !.enableSpaceMerge = sp,
        !.enableMinLengthMerge = mlm,
        !.minTextLength = 2,
        !.enableSegmentAnalyzer = an]

BasicOptions ==
    \* the analyzer off: window, merge cap, length cap, joiner, minimum-length rule
    { BasicOption(IntChunk(c), mmc, mtl, flags[1], flags[2], FALSE) :
        c \in {1, 2, 3}, mmc \in {1, 2, 3}, mtl \in {2, 4},
        flags \in {<<FALSE, FALSE>>, <<TRUE, FALSE>>, <<FALSE, TRUE>>} }
    \cup
    \* a chunk size below the floor, and one int() refuses
    { BasicOption(chunk, mmc, 4, FALSE, FALSE, FALSE) :
        chunk \in {IntChunk(0), [is_int |-> FALSE, value |-> 0]}, mmc \in {1, 2, 3} }

\* the analyzer on
AnalyzerOptions ==
    { BasicOption(IntChunk(c), 2, 4, FALSE, FALSE, TRUE) : c \in {1, 2, 3} }

\* the inputs of the runs with the analyzer on: every text is "a"
AnalyzerInputs ==
    UNION { { [k \in 1..n |-> BasicEntry(k - 1, TextA, k < n /\ tights[k])] :
                tights \in [1..(n - 1) -> BOOLEAN] } :
            n \in 0..MaxBasicEntries }

InitBasic ==
    /\ pc = "basic"
    /\ \/ opts \in BasicOptions /\ entries \in BasicInputs
       \/ opts \in AnalyzerOptions /\ entries \in AnalyzerInputs
    /\ parsed = entries
    /\ LoopStart
    /\ CodecIdle
    /\ ParseIdle
    /\ NoWindow

NextBasic == BasicStep \/ BasicReturn

SpecBasic == InitBasic /\ [][NextBasic]_vars

\* C1 as stated: every entry merge_basic_entries produces has text length
\* <= maxTextLength and absorbed <= maxMergeCount input entries.
C1_AllWithinLimits ==
    pc \in {"basic", "reindex"} =>
        \A k \in 1..Len(out) :
            /\ Len(out[k].text) <= opts.maxTextLength
            /\ absorbed[k] <= opts.maxMergeCount

\* C1 as amended: every entry merge_basic_entries produces by merging two or
\* more input entries has text length <= maxTextLength and absorbed
\* <= maxMergeCount entries; the emitted entry spans the entries it absorbed.
C1_MergedWithinLimits ==
    pc \in {"basic", "reindex"} =>
        /\ Len(absorbed) = Len(out)
        /\ SumSeq(absorbed) = idx
        /\ \A k \in 1..Len(out) :
            /\ absorbed[k] >= 1
            /\ out[k].start_time = At(parsed, FirstOf(k)).start_time
            /\ out[k].end_time = At(parsed, FirstOf(k) + absorbed[k] - 1).end_time
            /\ absorbed[k] >= 2 =>
                  /\ Len(out[k].text) <= opts.maxTextLength
                  /\ absorbed[k] <= opts.maxMergeCount

C1_Witness ==
    /\ pc = "reindex"
    /\ \E k \in 1..Len(out) :
          absorbed[k] = opts.maxMergeCount /\ absorbed[k] >= 2
          /\ Len(out[k].text) = opts.maxTextLength
    /\ \E k \in 1..Len(out) : absorbed[k] = 1 /\ Len(out[k].text) > opts.maxTextLength

\* C2: every iteration of the outer loop of merge_basic_entries moves the
\* cursor idx strictly forward and never past the end (each window holds at
\* least one candidate to pick), so the loop ends after at most len(entries)
\* iterations for every entry list and every chunk size, chunk size 1 and
\* chunk size equal to the number of entries included.
C2_CursorAdvances ==
    /\ [][(pc = "basic" /\ idx < Len(entries))
            => (pc' = "raised" \/ (pc' = "basic" /\ idx' > idx /\ idx' <= Len(entries)))]_vars
    /\ [](pc = "basic" =>
            /\ idx <= Len(entries)
            /\ idx < Len(entries) =>
                  LET win == WindowCandidates(
                                 entries, idx,
                                 Min(Len(entries), idx + candidate_chunk_size(opts)), opts)
                  IN  win.raised \/ win.cands # <<>>)

C2_Witness ==
    /\ pc = "reindex"
    /\ Len(parsed) = MaxBasicEntries
    /\ candidate_chunk_size(opts) = Len(parsed)
    /\ idx = Len(parsed)
    /\ Len(out) = 2

(***************************************************************************)
(* process_srt: the filters, apply_merge_pipeline and reindex_entries      *)
(***************************************************************************)
\* time_to_ms of src/utils/common.py: the same strptime format, milliseconds
\* as int(dt.microsecond / 1000)
common_time_to_ms(time_str) == MsOfDatetime(strptime(time_str))

\* faulty variant of is_short_subtitle: the except branch returns True
is_short_subtitle_DropOnError(start_time_str, end_time_str, threshold_ms) ==
    LET start_ms == common_time_to_ms(start_time_str)
        end_ms == common_time_to_ms(end_time_str)
    IN  IF start_ms = ValueError \/ end_ms = ValueError
        THEN TRUE
        ELSE end_ms - start_ms <= threshold_ms

\* the except branch of is_short_subtitle returns False
is_short_subtitle(start_time_str, end_time_str, threshold_ms) ==
    LET start_ms == common_time_to_ms(start_time_str)
        end_ms == common_time_to_ms(end_time_str)
    IN  IF start_ms = ValueError \/ end_ms = ValueError
        THEN FALSE
        ELSE end_ms - start_ms <= threshold_ms

RECURSIVE ShortScan(_, _, _)
ShortScan(es, k, threshold_ms) ==
    IF k > Len(es) THEN <<>>
    ELSE IF is_short_subtitle(es[k].start_time, es[k].end_time, threshold_ms)
         THEN ShortScan(es, k + 1, threshold_ms)
         ELSE <<es[k]>> \o ShortScan(es, k + 1, threshold_ms)

remove_short_entries(es, options) ==
    IF ~options.enableMinDurationRemove THEN es
    ELSE ShortScan(es, 1, options.minDurationMs)

startswith(s, c) == Len(s) >= 1 /\ s[1] = c
endswith(s, c) == Len(s) >= 1 /\ s[Len(s)] = c

RECURSIVE BracketScan(_, _)
BracketScan(es, k) ==
    IF k > Len(es) THEN <<>>
    ELSE IF startswith(strip(es[k].text), "[") /\ endswith(strip(es[k].text), "]")
         THEN BracketScan(es, k + 1)
         ELSE <<es[k]>> \o BracketScan(es, k + 1)

\* faulty variant of filter_bracket_entries: only the opening bracket is tested
filter_bracket_entries_OpenOnly(es) ==
    SelectSeq(es, LAMBDA e : ~startswith(strip(e.text), "["))

filter_bracket_entries(es) == BracketScan(es, 1)

\* the list comprehension of lines 404-408; start_ms and end_ms are integers
RECURSIVE RangeScan(_, _, _, _)
RangeScan(es, k, start_ms, end_ms) ==
    IF k > Len(es) THEN [raised |-> FALSE, entries |-> <<>>]
    ELSE LET entry_ms == time_to_ms(es[k].start_time)
             rest == RangeScan(es, k + 1, start_ms, end_ms)
         IN  IF entry_ms = ValueError \/ rest.raised
             THEN [raised |-> TRUE, entries |-> <<>>]
             ELSE IF start_ms <= entry_ms /\ entry_ms <= end_ms
                  THEN [raised |-> FALSE, entries |-> <<es[k]>> \o rest.entries]
                  ELSE rest

filter_by_time_range(es, start_time, end_time) ==
    IF start_time = <<>> \/ end_time = <<>>
    THEN [raised |-> FALSE, entries |-> es]
    ELSE LET start_ms == time_to_ms(start_time)
             end_ms == time_to_ms(end_time)
         IN  IF start_ms = ValueError \/ end_ms = ValueError
             THEN [raised |-> TRUE, entries |-> <<>>]
             ELSE RangeScan(es, 1, start_ms, end_ms)

\* faulty variant of reindex_entries: enumerate from 0
reindex_entries_FromZero(es) ==
    [k \in 1..Len(es) |->
        [index |-> k - 1, start_time |-> es[k].start_time,
         end_time |-> es[k].end_time, text |-> es[k].text]]

reindex_entries(es) ==
    [k \in 1..Len(es) |->
        [index |-> k, start_time |-> es[k].start_time,
         end_time |-> es[k].end_time, text |-> es[k].text]]

\* process_srt lines 461-463: the time-range filter, then before_count
TimeRangeStep ==
    /\ pc = "time_range"
    /\ LET filtered == filter_by_time_range(entries, range[1], range[2])
       IN  IF filtered.raised
           THEN /\ pc' = "raised"
                /\ result' = Raised
                /\ entries' = entries
           ELSE /\ entries' = filtered.entries
                /\ result' = [result EXCEPT !.beforeCount = Len(filtered.entries)]
                /\ pc' = "bracket"
    /\ UNCHANGED <<opts, range, parsed, idx, out, absorbed, codecVars, parseVars, basicVars>>

\* process_srt line 466
BracketStep ==
    /\ pc = "bracket"
    /\ entries' = filter_bracket_entries(entries)
    /\ pc' = "min_duration"
    /\ UNCHANGED <<opts, range, parsed, idx, out, absorbed, result, codecVars, parseVars, basicVars>>

\* process_srt line 469
MinDurationStep ==
    /\ pc = "min_duration"
    /\ entries' = remove_short_entries(entries, opts)
    /\ pc' = "dup?"
    /\ UNCHANGED <<opts, range, parsed, idx, out, absorbed, result, codecVars, parseVars, basicVars>>

\* apply_merge_pipeline lines 432-434
EnterDup ==
    /\ pc = "dup?"
    /\ pc' = IF opts.enableDuplicateMerge THEN "dup" ELSE "end_start?"
    /\ idx' = 0
    /\ out' = <<>>
    /\ absorbed' = <<>>
    /\ UNCHANGED <<opts, range, parsed, entries, result, codecVars, parseVars, basicVars>>

\* apply_merge_pipeline lines 436-444
EnterEndStart ==
    /\ pc = "end_start?"
    /\ pc' = IF opts.enableEndStartMerge THEN "end_start" ELSE "basic?"
    /\ idx' = 0
    /\ out' = <<>>
    /\ absorbed' = <<>>
    /\ UNCHANGED <<opts, range, parsed, entries, result, codecVars, parseVars, basicVars>>

\* apply_merge_pipeline lines 446-450
EnterBasic ==
    /\ pc = "basic?"
    /\ pc' = IF opts.enableBasicMerge THEN "basic" ELSE "reindex"
    /\ idx' = 0
    /\ out' = <<>>
    /\ absorbed' = <<>>
    /\ UNCHANGED <<opts, range, parsed, entries, result, codecVars, parseVars, basicVars>>

\* process_srt lines 472-482: after_count, reindex_entries, the returned dict
\* (output is the indexed entry list generate_srt writes out)
ReindexStep ==
    /\ pc = "reindex"
    /\ result' = [raised |-> FALSE, output |-> reindex_entries(entries),
                  beforeCount |-> result.beforeCount, afterCount |-> Len(entries)]
    /\ pc' = "done"
    /\ UNCHANGED <<opts, range, parsed, entries, idx, out, absorbed, codecVars, parseVars, basicVars>>

(***************************************************************************)
(* Specification of process_srt on the entries parse_srt returned          *)
(***************************************************************************)
MaxFileEntries == 2

TextHello == <<"H", "e", "l", "l", "o", " ", "t", "h", "e", "r", "e">>
TextMusic == <<"[", "a", "]">>
TextPartial == <<"[", "a", "]", " ", "b">>
\* its last word is its first word, and it closes a bracket TextPartial opened
TextClose == <<"]", " ", "]">>

\* 00:00:SS.mmm, a dot where strptime wants the comma
BadStamp(sec, milli) == [Stamp(sec, milli) EXCEPT ![9] = "."]

H1 == Entry(Stamp(1, 0), Stamp(2, 0), TextHello)
H2 == Entry(Stamp(2, 100), Stamp(3, 0), TextHello)
E1 == Entry(Stamp(1, 0), Stamp(2, 0), TextClose)
E2 == Entry(Stamp(2, 100), Stamp(3, 0), TextClose)

FilePool ==
    { H1, H2, E1, E2,
      Entry(Stamp(1, 0), Stamp(2, 0), TextMusic),
      Entry(Stamp(1, 800), Stamp(2, 0), TextPartial),       \* lasts 200 ms
      Entry(BadStamp(2, 100), Stamp(3, 0), TextClose),      \* malformed start
      Entry(Stamp(1, 0), BadStamp(2, 0), TextClose) }       \* malformed end

Flags(dup, end_start, basic, min_duration, mmc) ==
    [DefaultOptions EXCEPT
        !.enableDuplicateMerge = dup,
        !.enableEndStartMerge = end_start,
        !.enableBasicMerge = basic,
        !.enableMinDurationRemove = min_duration,
        !.maxMergeCount = mmc]

NoRange == <<<<>>, <<>>>>

Requests ==
    \* every combination of the three mergers, no time range
    { <<Flags(f[1], f[2], f[3], FALSE, 2), NoRange>> : f \in [1..3 -> BOOLEAN] }
    \cup
    \* the minimum-duration filter on its own and before the mergers; a
    \* Candidate Pipeline that may not merge
    { <<o, NoRange>> : o \in { Flags(FALSE, FALSE, FALSE, TRUE, 2),
                               Flags(TRUE, TRUE, TRUE, TRUE, 2),
                               Flags(FALSE, FALSE, TRUE, FALSE, 1) } }
    \cup
    \* a time range: one bound only, both bounds, a malformed bound
    { <<o, r>> : o \in { Flags(FALSE, FALSE, FALSE, FALSE, 2),
                         Flags(TRUE, FALSE, FALSE, TRUE, 2) },
                 r \in { <<Stamp(1, 0), <<>> >>,
                         <<Stamp(1, 0), Stamp(2, 0)>>,
                         <<Stamp(1, 0), BadStamp(2, 0)>> } }

InitProcess ==
    /\ pc = "time_range"
    /\ \E rq \in Requests : opts = rq[1] /\ range = rq[2]
    /\ parsed \in SeqsUpTo(FilePool, MaxFileEntries)
    /\ entries = parsed
    /\ idx = 0
    /\ out = <<>>
    /\ absorbed = <<>>
    /\ result = NoResult
    /\ CodecIdle
    /\ ParseIdle
    /\ NoWindow

NextProcess ==
    \/ TimeRangeStep
    \/ BracketStep
    \/ MinDurationStep
    \/ EnterDup
    \/ DupStep
    \/ DupReturn
    \/ EnterEndStart
    \/ EndStartStep
    \/ EndStartReturn
    \/ EnterBasic
    \/ BasicStep
    \/ BasicReturn
    \/ ReindexStep

SpecProcess == InitProcess /\ [][NextProcess]_vars

\* the claim's own test of a fully bracketed text
FullyBracketed(text) ==
    LET t == strip(text) IN t # <<>> /\ Head(t) = "[" /\ t[Len(t)] = "]"

KeptPositions(es) == { i \in 1..Len(es) : ~FullyBracketed(es[i].text) }

\* the j-th position, in order, of an entry that is not fully bracketed
NthKept(es, j) ==
    CHOOSE i \in KeptPositions(es) :
        Cardinality({ m \in KeptPositions(es) : m < i }) = j - 1

NoMerger == ~opts.enableDuplicateMerge /\ ~opts.enableEndStartMerge /\ ~opts.enableBasicMerge

Indexed(k, start, end, text) ==
    [index |-> k, start_time |-> start, end_time |-> end, text |-> text]

\* C9: apply_merge_pipeline runs Duplicate Merger, Boundary Merger, Candidate
\* Pipeline in that order, each only when its flag is set; a stage whose flag
\* is not set hands the entries on unchanged; the output entries carry the
\* indices 1..n in final order; two "Hello there" captions 00:00:01,000-
\* 00:00:02,000 and 00:00:02,100-00:00:03,000 with only the duplicate merge
\* (gap 300) become one caption 1 spanning 00:00:01,000-00:00:03,000.
C9_StageOrder ==
    /\ [][/\ pc = "dup?" =>
               /\ pc' = (IF opts.enableDuplicateMerge THEN "dup" ELSE "end_start?")
               /\ entries' = entries
          /\ pc = "dup" => pc' \in {"dup", "end_start?", "raised"}
          /\ pc = "end_start?" =>
               /\ pc' = (IF opts.enableEndStartMerge THEN "end_start" ELSE "basic?")
               /\ entries' = entries
          /\ pc = "end_start" => pc' \in {"end_start", "basic?", "raised"}
          /\ pc = "basic?" =>
               /\ pc' = (IF opts.enableBasicMerge THEN "basic" ELSE "reindex")
               /\ entries' = entries
          /\ pc = "basic" => pc' \in {"basic", "reindex", "raised"}
          /\ pc = "reindex" => pc' = "done" /\ entries' = entries]_vars
    /\ [](pc = "done" =>
            /\ Len(result.output) = Len(entries)
            /\ result.afterCount = Len(entries)
            /\ \A k \in 1..Len(entries) :
                  result.output[k] =
                      Indexed(k, entries[k].start_time, entries[k].end_time, entries[k].text)
            /\ (parsed = <<H1, H2>> /\ opts = Flags(TRUE, FALSE, FALSE, FALSE, 2)
                  /\ range = NoRange)
                 => result.output = <<Indexed(1, Stamp(1, 0), Stamp(3, 0), TextHello)>>
            \* the boundary merger alone would have fused these two into "] ]]"
            /\ (parsed = <<E1, E2>> /\ opts = Flags(TRUE, TRUE, FALSE, FALSE, 2)
                  /\ range = NoRange)
                 => result.output = <<Indexed(1, Stamp(1, 0), Stamp(3, 0), TextClose)>>)

C9_Witness ==
    /\ pc = "done"
    /\ parsed = <<H1, H2>>
    /\ opts = Flags(TRUE, FALSE, FALSE, FALSE, 2)
    /\ opts.maxDuplicateGap = 300
    /\ range = NoRange
    /\ result.output = <<Indexed(1, Stamp(1, 0), Stamp(3, 0), TextHello)>>

Malformed(stamp) == time_to_ms(stamp) = ValueError

RangeGiven == range[1] # <<>> /\ range[2] # <<>>

\* positions of the entries with a malformed start or end time
MalformedAt(es) ==
    { k \in 1..Len(es) : Malformed(es[k].start_time) \/ Malformed(es[k].end_time) }

\* C10 as stated: a run in which a stage reads timestamps (the time-range
\* filter the start times; the minimum-duration filter and the mergers the
\* start and end times) never returns an output that passes an entry through
\* with such a timestamp malformed.
C10_MalformedAlwaysFails ==
    pc = "done" =>
        /\ RangeGiven =>
              \A k \in 1..Len(result.output) : ~Malformed(result.output[k].start_time)
        /\ (\/ opts.enableMinDurationRemove
            \/ opts.enableDuplicateMerge
            \/ opts.enableEndStartMerge
            \/ opts.enableBasicMerge)
             => MalformedAt(result.output) = {}

\* C10 as amended: process_srt raises and returns no output whenever a stage
\* parses a malformed timestamp with time_to_ms of app.py: the time-range
\* filter (both bounds given) parses the bounds and every entry's start, the
\* Duplicate Merger every end and every start but the first entry's, the
\* Boundary Merger the end and the start on each side of every adjacent pair,
\* the Candidate Pipeline those of each pair it tries to extend across.  The
\* minimum-duration filter never raises: it keeps every entry whose timestamp
\* is malformed.  Once raised, nothing more happens and there is no output.
C10_ParsedMalformedFails ==
    /\ [][/\ (pc = "time_range" /\ RangeGiven
               /\ (\/ Malformed(range[1])
                   \/ Malformed(range[2])
                   \/ \E k \in 1..Len(entries) : Malformed(entries[k].start_time)))
              => pc' = "raised"
          /\ pc = "min_duration" =>
               /\ pc' = "dup?"
               /\ SelectSeq(entries', LAMBDA e : Malformed(e.start_time) \/ Malformed(e.end_time))
                    = SelectSeq(entries, LAMBDA e : Malformed(e.start_time) \/ Malformed(e.end_time))
          /\ pc # "raised"]_vars
    /\ [](pc = "dup" =>
            \A k \in 1..idx :
                /\ ~Malformed(entries[k].end_time)
                /\ k > 1 => ~Malformed(entries[k].start_time))
    /\ [](pc = "end_start" =>
            \A k \in 1..idx :
                /\ k < Len(entries) => ~Malformed(entries[k].end_time)
                /\ k > 1 => ~Malformed(entries[k].start_time))
    /\ [](pc = "basic" =>
            /\ \A k \in 1..Len(out) : \A j \in FirstOf(k)..(FirstOf(k) + absorbed[k] - 2) :
                  /\ ~Malformed(At(entries, j).end_time)
                  /\ ~Malformed(At(entries, j + 1).start_time)
            /\ (idx > 0 /\ Len(entries) >= 2 /\ opts.maxMergeCount >= 2
                  /\ candidate_chunk_size(opts) >= 2)
                 => /\ ~Malformed(entries[1].end_time)
                    /\ ~Malformed(entries[2].start_time))
    /\ [](/\ pc = "raised" => result = Raised
          /\ pc = "done" => ~result.raised)

\* the minimum-duration filter kept the entry and the Duplicate Merger raised
C10_Witness ==
    /\ pc = "raised"
    /\ result = Raised
    /\ range = NoRange
    /\ opts.enableMinDurationRemove
    /\ opts.enableDuplicateMerge
    /\ MalformedAt(entries) # {}
    /\ Len(entries) = Len(parsed)

(***************************************************************************)
(* parse_srt                                                               *)
(*                                                                         *)
(* srt is srt_text.splitlines(); a dict is a record with the set of keys   *)
(* it holds, so that 'index' not in entry and entry.get('text', '') read   *)
(* as in the code.                                                         *)
(***************************************************************************)
EmptyDict == [keys |-> {}, index |-> 0, start_time |-> <<>>, end_time |-> <<>>, text |-> <<>>]

Arrow == <<"-", "-", ">">>

isdigit(s) == s # <<>> /\ \A i \in 1..Len(s) : IsDigit(s[i])

\* str.find from position i (1-based): the first position of sep, 0 if none
RECURSIVE FindFrom(_, _, _)
FindFrom(s, sep, i) ==
    IF i + Len(sep) - 1 > Len(s) THEN 0
    ELSE IF SubSeq(s, i, i + Len(sep) - 1) = sep THEN i
    ELSE FindFrom(s, sep, i + 1)

\* sep in s
Contains(s, sep) == FindFrom(s, sep, 1) # 0

\* s.split(sep): the parts between the occurrences of sep, left to right
RECURSIVE split_sep(_, _)
split_sep(s, sep) ==
    LET at == FindFrom(s, sep, 1)
    IN  IF at = 0 THEN <<s>>
        ELSE <<SubSeq(s, 1, at - 1)>> \o split_sep(SubSeq(s, at + Len(sep), Len(s)), sep)

\* '\n'.join(lines)
RECURSIVE join_newline(_)
join_newline(lines) ==
    IF lines = <<>> THEN <<>>
    ELSE IF Len(lines) = 1 THEN lines[1]
    ELSE lines[1] \o <<"\n">> \o join_newline(Tail(lines))

\* entry.get('text', '')
GetText(d) == IF "text" \in d.keys THEN d.text ELSE <<>>

\* lines 70-71 and 87-88: the block is kept when its text is not blank
BlockKept(d) == strip(GetText(d)) # <<>>

\* lines 80-82: start, end = line.split('-->') raises ValueError unless the
\* split has exactly two parts
TimeLine(d, line) ==
    LET parts == split_sep(line, Arrow)
    IN  IF Len(parts) # 2
        THEN [raised |-> TRUE, entry |-> d]
        ELSE [raised |-> FALSE,
              entry |-> [d EXCEPT !.keys = @ \cup {"start_time", "end_time"},
                                  !.start_time = strip(parts[1]),
                                  !.end_time = strip(parts[2])]]

\* lines 84-85
TextLine(d, lines, line) ==
    [d EXCEPT !.keys = @ \cup {"text"}, !.text = join_newline(Append(lines, line))]

\* one iteration of the for loop of lines 67-85
ParseLine ==
    /\ pc = "parse"
    /\ idx < Len(srt)
    /\ LET line == strip(srt[idx + 1])
       IN  IF line = <<>>
           THEN /\ out' = IF BlockKept(entry)
                          THEN Append(out, [entry EXCEPT !.text = join_newline(text_lines)])
                          ELSE out
                /\ entry' = EmptyDict
                /\ text_lines' = <<>>
                /\ UNCHANGED <<pc, result>>
           ELSE IF "index" \notin entry.keys /\ isdigit(line)
           THEN /\ entry' = [entry EXCEPT !.keys = @ \cup {"index"}, !.index = DecValue(line)]
                /\ UNCHANGED <<pc, result, out, text_lines>>
           ELSE IF "start_time" \notin entry.keys /\ Contains(line, Arrow)
           THEN LET timed == TimeLine(entry, line)
                IN  IF timed.raised
                    THEN /\ pc' = "raised"
                         /\ result' = Raised
                         /\ UNCHANGED <<entry, out, text_lines>>
                    ELSE /\ entry' = timed.entry
                         /\ UNCHANGED <<pc, result, out, text_lines>>
           ELSE /\ text_lines' = Append(text_lines, line)
                /\ entry' = TextLine(entry, text_lines, line)
                /\ UNCHANGED <<pc, result, out>>
    /\ idx' = idx + 1
    /\ UNCHANGED <<opts, range, parsed, entries, absorbed, srt, codecVars, basicVars>>

\* lines 87-90: the last block, then return entries
ParseReturn ==
    /\ pc = "parse"
    /\ ~(idx < Len(srt))
    /\ out' = IF BlockKept(entry) THEN Append(out, entry) ELSE out
    /\ parsed' = out'
    /\ pc' = "parsed"
    /\ UNCHANGED <<opts, range, entries, idx, absorbed, result, parseVars, codecVars, basicVars>>

(***************************************************************************)
(* Specification of parse_srt called on its own                            *)
(***************************************************************************)
MaxSrtLines == 4

LinePool ==
    { <<>>,                                              \* a blank line
      <<" ", "1", " ">>,                                 \* a bare integer
      <<"x">>,                                           \* text
      <<"s", " ">> \o Arrow \o <<" ", "e">>,             \* s --> e
      <<"a">> \o Arrow \o <<"b">> \o Arrow \o <<"c">>,   \* a-->b-->c
      Arrow }                                            \* --> with nothing around it

InitParse ==
    /\ pc = "parse"
    /\ srt \in SeqsUpTo(LinePool, MaxSrtLines)
    /\ entry = EmptyDict
    /\ text_lines = <<>>
    /\ opts = <<>>
    /\ range = <<>>
    /\ parsed = <<>>
    /\ entries = <<>>
    /\ idx = 0
    /\ out = <<>>
    /\ absorbed = <<>>
    /\ result = NoResult
    /\ CodecIdle
    /\ NoWindow

NextParse == ParseLine \/ ParseReturn

SpecParse == InitParse /\ [][NextParse]_vars

\* the stripped line the loop is about to read
ThisLine == strip(srt[idx + 1])

\* C11: parse_srt never fails: every non-blank line that is not the block's
\* first bare-integer line or its first line containing '-->' is accumulated
\* as text, lines with several '-->' separators included, and a block whose
\* text is blank is dropped.
C11_ParseNeverFails ==
    /\ [][(pc = "parse" /\ idx < Len(srt)) =>
            /\ pc' = "parse"
            /\ (/\ ThisLine # <<>>
                /\ ~("index" \notin entry.keys /\ isdigit(ThisLine))
                /\ ~("start_time" \notin entry.keys /\ Contains(ThisLine, Arrow)))
                 => text_lines' = Append(text_lines, ThisLine)]_vars
    /\ [](pc = "parsed" => \A k \in 1..Len(parsed) : strip(parsed[k].text) # <<>>)

\* the window the loop is about to build, and its candidates with the
\* analyzer switched off
WindowNow ==
    WindowCandidates(entries, idx, Min(Len(entries), idx + candidate_chunk_size(opts)), opts)

UnanalysedNow ==
    ScoredCandidates(WindowNow.cands, [i \in 1..Len(WindowNow.cands) |-> AnalyzerRaises], FALSE)

\* C12: a call of the analyzer that fails inside merge_basic_entries gives the
\* candidate no verdict and score 0, exactly the candidate built with the
\* analyzer disabled; no error leaves the loop, which goes on to its end; a
\* window in which every call failed emits what the disabled analyzer emits.
C12_AnalyzerFailureIsNoVerdict ==
    /\ [](pc \in {"basic", "reindex"} =>
            \A i \in 1..Len(analyzer_calls) :
                analyzer_calls[i].raises =>
                    /\ ~window_candidates[i].analysis.has
                    /\ window_candidates[i].score = 0
                    /\ ~window_candidates[i].is_complete)
    /\ [][(pc = "basic" /\ idx < Len(entries) /\ opts.enableSegmentAnalyzer) =>
            /\ pc' = "basic"
            /\ Len(analyzer_calls') = Len(UnanalysedNow)
            /\ \A i \in 1..Len(analyzer_calls') :
                  analyzer_calls'[i].raises => window_candidates'[i] = UnanalysedNow[i]
            /\ (\A i \in 1..Len(analyzer_calls') : analyzer_calls'[i].raises) =>
                  /\ out' = out \o EmitBest(entries, idx, BestCandidate(UnanalysedNow)).emitted
                  /\ idx' = EmitBest(entries, idx, BestCandidate(UnanalysedNow)).idx]_vars

C12_Witness ==
    /\ pc = "reindex"
    /\ opts.enableSegmentAnalyzer
    /\ Len(out) >= 1
    /\ \E i \in 1..Len(analyzer_calls) : analyzer_calls[i].raises
    /\ \E i \in 1..Len(analyzer_calls) :
          ~analyzer_calls[i].raises /\ window_candidates[i].score > 0

\* break_naturalness of a candidate, 0 when it has no verdict
Naturalness(cand) == IF cand.analysis.has THEN cand.analysis.break_naturalness ELSE 0

\* the candidate of the last window that was emitted: the last entry of out
Selected ==
    CHOOSE i \in 1..Len(window_candidates) :
        /\ window_candidates[i].merge_count = absorbed[Len(absorbed)]
        /\ window_candidates[i].start_idx = idx - absorbed[Len(absorbed)]

\* C13: the candidate selected in a window has the highest score of the
\* window, among the candidates of that score the highest break_naturalness
\* (0 without a verdict), among those the highest merge count; with the
\* analyzer disabled every score is 0 and the selected candidate has the
\* largest merge count of the window.
C13_BestIsLexicographicMax ==
    (pc \in {"basic", "reindex"} /\ window_candidates # <<>>) =>
        LET sel == window_candidates[Selected]
        IN  /\ out[Len(out)] = sel.entry
            /\ \A i \in 1..Len(window_candidates) :
                  LET c == window_candidates[i]
                  IN  /\ c.score <= sel.score
                      /\ c.score = sel.score => Naturalness(c) <= Naturalness(sel)
                      /\ (c.score = sel.score /\ Naturalness(c) = Naturalness(sel))
                           => c.merge_count <= sel.merge_count
                      /\ ~opts.enableSegmentAnalyzer =>
                           (c.score = 0 /\ c.merge_count <= sel.merge_count)

\* two candidates share the top score; the one with the higher
\* break_naturalness was selected although the other merges more entries
C13_Witness ==
    /\ pc \in {"basic", "reindex"}
    /\ window_candidates # <<>>
    /\ \E i \in 1..Len(window_candidates) :
          /\ window_candidates[i].score = window_candidates[Selected].score
          /\ Naturalness(window_candidates[i]) < Naturalness(window_candidates[Selected])
          /\ window_candidates[i].merge_count > window_candidates[Selected].merge_count

NonSpaceLen(text) == Len(remove_spaces(text))

\* C14: with enableMinLengthMerge on, _can_extend_merge allows the growth of
\* a candidate (the gap being within maxBasicGap) whenever the current merged
\* text or the next entry's text has fewer than minTextLength non-space
\* characters, and refuses it only when neither has.
C14_OneShortSideSuffices ==
    [][(pc = "basic" /\ idx < Len(entries) /\ opts.enableMinLengthMerge) =>
         \A i \in 1..Len(window_candidates') :
            LET c == window_candidates'[i]
                window_end == Min(Len(entries), idx + candidate_chunk_size(opts))
                next_entry == At(entries, c.start_idx + c.merge_count)
            IN  (/\ ~GrowthCapped(c.start_idx, c.merge_count, window_end, opts)
                 /\ time_to_ms(next_entry.start_time) - time_to_ms(c.entry.end_time)
                      <= opts.maxBasicGap)
                => (_can_extend_merge(c.entry.text, next_entry, c.entry.end_time, opts).ok
                      <=> (\/ NonSpaceLen(c.entry.text) < opts.minTextLength
                           \/ NonSpaceLen(strip(next_entry.text)) < opts.minTextLength))]_vars

\* the texts of the n input entries from position first (0-based) on, joined
\* one after the other
RECURSIVE GroupText(_, _, _)
GroupText(first, n, joined) ==
    IF n = 0 THEN joined
    ELSE GroupText(first + 1, n - 1,
                   _join_segment_text(joined, At(parsed, first).text, opts.enableSpaceMerge))

\* C15 (parsed is the list merge_basic_entries was handed): the entries
\* merge_basic_entries has emitted are, in order, contiguous
\* groups of input entries that cover exactly the entries before the cursor;
\* each carries its group's first start time, last end time and joined text;
\* in every iteration the entries before the winner's start index are emitted
\* one by one, unmerged, and the winner last.
C15_OutputPartitionsInput ==
    /\ [](pc \in {"basic", "reindex"} =>
            /\ Len(absorbed) = Len(out)
            /\ SumSeq(absorbed) = idx
            /\ idx <= Len(parsed)
            /\ pc = "reindex" => idx = Len(parsed)
            /\ \A k \in 1..Len(out) :
                  /\ absorbed[k] >= 1
                  /\ out[k].start_time = At(parsed, FirstOf(k)).start_time
                  /\ out[k].end_time = At(parsed, FirstOf(k) + absorbed[k] - 1).end_time
                  /\ out[k].text = GroupText(FirstOf(k), absorbed[k], <<>>))
    /\ [][(pc = "basic" /\ idx < Len(entries)) =>
            /\ Len(out') > Len(out)
            /\ SubSeq(out', 1, Len(out)) = out
            /\ SubSeq(absorbed', 1, Len(out)) = absorbed
            /\ \A k \in (Len(out) + 1)..(Len(out') - 1) :
                  /\ absorbed'[k] = 1
                  /\ out'[k] = At(entries, idx + k - Len(out) - 1)
            /\ out'[Len(out')] = window_candidates'[Selected'].entry]_vars

\* the winner of the last window starts after the window's first entry and
\* merged two entries
C15_Witness ==
    /\ pc \in {"basic", "reindex"}
    /\ window_candidates # <<>>
    /\ window_candidates[Selected].start_idx > window_candidates[1].start_idx
    /\ absorbed[Len(absorbed)] >= 2
    /\ Len(out) >= 2
    /\ absorbed[Len(absorbed) - 1] = 1

====
